---- MODULE Spec2Model ----
(***************************************************************************)
(* savaki/dynamo: the functional-options builder of a DynamoDB             *)
(* CreateTableInput (create.go) and the idempotent table lifecycle calls   *)
(* CreateTableIfNotExists / DeleteTableIfExists.                           *)
(*                                                                         *)
(* A Go pointer or an error that may be nil is a sequence of length 0      *)
(* (nil) or 1.  An option value (a tableIndexFunc closure) is a record     *)
(* holding the constructor's name and the arguments the closure captured.  *)
(***************************************************************************)
EXTENDS Integers, Sequences, FiniteSets, TLC

(***************************************************************************)
(* The field names of the records of this module.  Every record below      *)
(* lists its fields in this order, which is then the order TLC keeps them  *)
(* in: a record is never re-ordered after it was built.                    *)
(***************************************************************************)
FieldOrder ==
  [fn |-> 1, attributeName |-> 2, attributeType |-> 3, mode |-> 4,
   indexName |-> 5, index |-> 6, attributes |-> 7, keys |-> 8,
   hashKey |-> 9, rangeKey |-> 10, billingMode |-> 11,
   globalIndexes |-> 12, localIndexes |-> 13, projectionType |-> 14,
   opts |-> 15, rcap |-> 16, readCapacityUnits |-> 17,
   streamViewType |-> 18, wcap |-> 19, writeCapacityUnits |-> 20,
   Name |-> 21, Type |-> 22, AttributeName |-> 23, AttributeType |-> 24,
   KeyType |-> 25, AttributeDefinitions |-> 26, BillingMode |-> 27,
   IndexName |-> 28, KeySchema |-> 29, Projection |-> 30,
   NonKeyAttributes |-> 31, ProjectionType |-> 32,
   ProvisionedThroughput |-> 33, ReadCapacityUnits |-> 34,
   WriteCapacityUnits |-> 35, TableName |-> 36, StreamSpecification |-> 37,
   StreamEnabled |-> 38, StreamViewType |-> 39,
   GlobalSecondaryIndexes |-> 40, LocalSecondaryIndexes |-> 41,
   awserr |-> 42, code |-> 43, tableName |-> 44]

(***************************************************************************)
(* Bounds of the model.  The size of an option list counts every option    *)
(* one and an index declaration one more for each of its nested options.   *)
(***************************************************************************)
\* Largest option list assembled from all the options.
MaxOpts == 2
\* Largest option list assembled from the key and index declarations alone.
MaxAttrOpts == 4
\* Largest option list assembled from the billing and capacity options and
\* the index declarations alone.
MaxCapOpts == 4
\* Largest option list of the calls of the goroutines that share a handle.
MaxCallOpts == 2

(***************************************************************************)
(* Constants of the program and of the SDK it is written against.          *)
(***************************************************************************)
DefaultBillingMode == "PROVISIONED"
DefaultReadCapacity == 3
DefaultWriteCapacity == 3
BillingModePayPerRequest == "PAY_PER_REQUEST"
KeyTypeHash == "HASH"
KeyTypeRange == "RANGE"
ErrCodeResourceInUseException == "ResourceInUseException"
ErrCodeResourceNotFoundException == "ResourceNotFoundException"

(***************************************************************************)
(* The values the caller's arguments and the collaborator's answers are    *)
(* drawn from.                                                             *)
(***************************************************************************)
TableNames == {"blah", "other"}
AttributeNames == {"id", "range"}
ScalarAttributeTypes == {"S", "N"}
BillingModes == {"PROVISIONED", "PAY_PER_REQUEST"}
CapacityValues == {4, 5}
StreamViewTypes == {"KEYS_ONLY", ""}
IndexNames == {"index"}
\* Two names, for the index lists whose order is looked at.
IndexNamesOrdered == {"index", "second"}
ProjectionTypes == {"INCLUDE"}

Nil == <<>>
Some(x) == <<x>>

\* awserr.New(code, "boom", nil): an error that implements awserr.Error.
AwsErr(code) == [awserr |-> TRUE, code |-> code]
\* An error that carries no service error code (errors.New).
PlainErr == [awserr |-> FALSE, code |-> ""]
\* What the collaborator's call returns when its ctx is cancelled: the SDK's
\* error of code RequestCanceled ("request context canceled").
CanceledErr == AwsErr("RequestCanceled")
\* What the collaborator may answer: nil or an error.
ApiErrors ==
  { Nil,
    Some(AwsErr(ErrCodeResourceInUseException)),
    Some(AwsErr(ErrCodeResourceNotFoundException)),
    Some(CanceledErr),
    Some(PlainErr) }

(***************************************************************************)
(* The option constructors: each returns a closure over its arguments.     *)
(***************************************************************************)
WithAttr(attributeName, attributeType) ==
  [fn |-> "WithAttr", attributeName |-> attributeName, attributeType |-> attributeType]

WithBillingMode(mode) ==
  [fn |-> "WithBillingMode", mode |-> mode]

WithGlobalSecondaryIndex(indexName, projectionType, opts) ==
  [fn |-> "WithGlobalSecondaryIndex", indexName |-> indexName,
   projectionType |-> projectionType, opts |-> opts]

WithHashKey(attributeName, attributeType) ==
  [fn |-> "WithHashKey", attributeName |-> attributeName, attributeType |-> attributeType]

WithLocalSecondaryIndex(indexName, projectionType, opts) ==
  [fn |-> "WithLocalSecondaryIndex", indexName |-> indexName,
   projectionType |-> projectionType, opts |-> opts]

WithRangeKey(attributeName, attributeType) ==
  [fn |-> "WithRangeKey", attributeName |-> attributeName, attributeType |-> attributeType]

WithReadCapacity(rcap) ==
  [fn |-> "WithReadCapacity", rcap |-> rcap]

WithStreamSpecification(streamViewType) ==
  [fn |-> "WithStreamSpecification", streamViewType |-> streamViewType]

WithWriteCapacity(wcap) ==
  [fn |-> "WithWriteCapacity", wcap |-> wcap]

(***************************************************************************)
(* The closures' bodies: what each option does to the tableOptions o.      *)
(***************************************************************************)
WithAttrFn(c, o) ==
  [o EXCEPT !.attributes =
     Append(@, [Name |-> c.attributeName, Type |-> c.attributeType])]

WithBillingModeFn(c, o) ==
  [o EXCEPT !.billingMode = c.mode]

\* The index is not rendered here: a closure that renders it later is queued.
WithGlobalSecondaryIndexFn(c, o) ==
  [o EXCEPT !.globalIndexes =
     Append(@, [indexName |-> c.indexName, projectionType |-> c.projectionType,
                opts |-> c.opts])]

\* Variant of WithHashKeyFn: a hash key already set is kept.
WithHashKeyFirstWins(c, o) ==
  IF o.keys.hashKey = Nil
    THEN [o EXCEPT !.keys.hashKey =
            Some([attributeName |-> c.attributeName, attributeType |-> c.attributeType])]
    ELSE o

WithHashKeyFn(c, o) ==
  [o EXCEPT !.keys.hashKey =
     Some([attributeName |-> c.attributeName, attributeType |-> c.attributeType])]

WithLocalSecondaryIndexFn(c, o) ==
  [o EXCEPT !.localIndexes =
     Append(@, [indexName |-> c.indexName, projectionType |-> c.projectionType,
                opts |-> c.opts])]

WithRangeKeyFn(c, o) ==
  [o EXCEPT !.keys.rangeKey =
     Some([attributeName |-> c.attributeName, attributeType |-> c.attributeType])]

WithReadCapacityFn(c, o) ==
  [o EXCEPT !.readCapacityUnits = c.rcap]

WithStreamSpecificationFn(c, o) ==
  [o EXCEPT !.streamViewType = c.streamViewType]

WithWriteCapacityFn(c, o) ==
  [o EXCEPT !.writeCapacityUnits = c.wcap]

\* fn(o): the call of a tableIndexFunc closure.
tableIndexFunc(c, o) ==
  CASE c.fn = "WithAttr" -> WithAttrFn(c, o)
    [] c.fn = "WithBillingMode" -> WithBillingModeFn(c, o)
    [] c.fn = "WithGlobalSecondaryIndex" -> WithGlobalSecondaryIndexFn(c, o)
    [] c.fn = "WithHashKey" -> WithHashKeyFn(c, o)
    [] c.fn = "WithLocalSecondaryIndex" -> WithLocalSecondaryIndexFn(c, o)
    [] c.fn = "WithRangeKey" -> WithRangeKeyFn(c, o)
    [] c.fn = "WithReadCapacity" -> WithReadCapacityFn(c, o)
    [] c.fn = "WithStreamSpecification" -> WithStreamSpecificationFn(c, o)
    [] c.fn = "WithWriteCapacity" -> WithWriteCapacityFn(c, o)

ApplyTable(c, o) == tableIndexFunc(c, o)

ApplyIndex(c, o) == tableIndexFunc(c, o)

(***************************************************************************)
(* makeTableOptions: the defaults, then every option in the order given.   *)
(***************************************************************************)
\* tableOptions{billingMode: ..., readCapacityUnits: ..., writeCapacityUnits: ...}
DefaultTableOptions ==
  [attributes |-> <<>>,
   keys |-> [hashKey |-> Nil, rangeKey |-> Nil],
   billingMode |-> DefaultBillingMode,
   globalIndexes |-> <<>>,
   localIndexes |-> <<>>,
   projectionType |-> "",
   readCapacityUnits |-> DefaultReadCapacity,
   streamViewType |-> "",
   writeCapacityUnits |-> DefaultWriteCapacity]

RECURSIVE applyAll(_, _)
\* for _, opt := range v { opt.ApplyTable(&options) }  (ApplyIndex does the same)
applyAll(opts, options) ==
  IF opts = <<>> THEN options
  ELSE applyAll(Tail(opts), ApplyTable(Head(opts), options))

makeTableOptions(opts) == applyAll(opts, DefaultTableOptions)

(***************************************************************************)
(* The renderers.                                                          *)
(***************************************************************************)
makeAttributeNames(attributes) ==
  [i \in 1..Len(attributes) |-> attributes[i].Name]

makeAttributeDefinitions(options) ==
  LET items1 == IF options.keys.hashKey # Nil
                  THEN <<[AttributeName |-> options.keys.hashKey[1].attributeName,
                          AttributeType |-> options.keys.hashKey[1].attributeType]>>
                  ELSE <<>>
  IN IF options.keys.rangeKey # Nil
       THEN Append(items1, [AttributeName |-> options.keys.rangeKey[1].attributeName,
                            AttributeType |-> options.keys.rangeKey[1].attributeType])
       ELSE items1

makeKeySchemaElements(options) ==
  LET items1 == IF options.keys.hashKey # Nil
                  THEN <<[AttributeName |-> options.keys.hashKey[1].attributeName,
                          KeyType |-> KeyTypeHash]>>
                  ELSE <<>>
  IN IF options.keys.rangeKey # Nil
       THEN Append(items1, [AttributeName |-> options.keys.rangeKey[1].attributeName,
                            KeyType |-> KeyTypeRange])
       ELSE items1

\* Variant of makeProvisionedThroughput: the billing mode is not looked at.
makeProvisionedThroughputAlways(options) ==
  Some([ReadCapacityUnits |-> options.readCapacityUnits,
        WriteCapacityUnits |-> options.writeCapacityUnits])

\* Variant of makeProvisionedThroughput: the default capacities are rendered.
makeProvisionedThroughputDefaults(options) ==
  IF options.billingMode = BillingModePayPerRequest THEN Nil
  ELSE Some([ReadCapacityUnits |-> DefaultReadCapacity,
             WriteCapacityUnits |-> DefaultWriteCapacity])

makeProvisionedThroughput(options) ==
  IF options.billingMode = BillingModePayPerRequest THEN Nil
  ELSE Some([ReadCapacityUnits |-> options.readCapacityUnits,
             WriteCapacityUnits |-> options.writeCapacityUnits])

\* Variant of GlobalIndexFn: options.billingMode is not assigned, the index
\* keeps the billing mode of its own options.
GlobalIndexFnOwnBilling(c, billingMode) ==
  LET options == makeTableOptions(c.opts)
  IN [index |->
        [IndexName |-> c.indexName,
         KeySchema |-> makeKeySchemaElements(options),
         Projection |-> [NonKeyAttributes |-> makeAttributeNames(options.attributes),
                         ProjectionType |-> c.projectionType],
         ProvisionedThroughput |-> makeProvisionedThroughput(options)],
      attributes |-> options.attributes]

\* The closure WithGlobalSecondaryIndex queued, called with the table's
\* billing mode: the rendered index and the attributes it declares.
GlobalIndexFn(c, billingMode) ==
  LET options == [makeTableOptions(c.opts) EXCEPT !.billingMode = billingMode]
  IN [index |->
        [IndexName |-> c.indexName,
         KeySchema |-> makeKeySchemaElements(options),
         Projection |-> [NonKeyAttributes |-> makeAttributeNames(options.attributes),
                         ProjectionType |-> c.projectionType],
         ProvisionedThroughput |-> makeProvisionedThroughput(options)],
      attributes |-> options.attributes]

\* The closure WithLocalSecondaryIndex queued: dynamodb.LocalSecondaryIndex
\* has no ProvisionedThroughput field.
LocalIndexFn(c, billingMode) ==
  LET options == [makeTableOptions(c.opts) EXCEPT !.billingMode = billingMode]
  IN [index |->
        [IndexName |-> c.indexName,
         KeySchema |-> makeKeySchemaElements(options),
         Projection |-> [NonKeyAttributes |-> makeAttributeNames(options.attributes),
                         ProjectionType |-> c.projectionType]],
      attributes |-> options.attributes]

RECURSIVE mergeLastWinsLoop(_, _)
mergeLastWinsLoop(merged, attributes) ==
  IF attributes = <<>> THEN merged
  ELSE LET attr == Head(attributes)
           known == \E i \in 1..Len(merged) : merged[i].AttributeName = attr.Name
       IN IF known
            THEN mergeLastWinsLoop(
                   [i \in 1..Len(merged) |->
                      IF merged[i].AttributeName = attr.Name
                        THEN [merged[i] EXCEPT !.AttributeType = attr.Type]
                        ELSE merged[i]],
                   Tail(attributes))
            ELSE mergeLastWinsLoop(
                   Append(merged, [AttributeName |-> attr.Name,
                                   AttributeType |-> attr.Type]),
                   Tail(attributes))

\* Variant of merge: a later declaration overwrites the type recorded.
mergeLastWins(definitions, attributes) == mergeLastWinsLoop(definitions, attributes)

RECURSIVE mergeLoop(_, _, _)
\* for _, attr := range attributes { if seen: continue; seen; append }
mergeLoop(merged, seen, attributes) ==
  IF attributes = <<>> THEN merged
  ELSE LET attr == Head(attributes)
       IN IF attr.Name \in seen
            THEN mergeLoop(merged, seen, Tail(attributes))
            ELSE mergeLoop(Append(merged, [AttributeName |-> attr.Name,
                                           AttributeType |-> attr.Type]),
                           seen \cup {attr.Name},
                           Tail(attributes))

\* Every given definition is kept as it is; an attribute is appended only
\* when its name was not seen before.
merge(definitions, attributes) ==
  mergeLoop(definitions,
            {definitions[i].AttributeName : i \in 1..Len(definitions)},
            attributes)

RECURSIVE renderGlobalIndexes(_, _, _)
\* for _, fn := range options.globalIndexes { ... }
renderGlobalIndexes(fns, billingMode, input) ==
  IF fns = <<>> THEN input
  ELSE LET r == GlobalIndexFn(Head(fns), billingMode)
       IN renderGlobalIndexes(
            Tail(fns), billingMode,
            [input EXCEPT
               !.GlobalSecondaryIndexes = Append(@, r.index),
               !.AttributeDefinitions = merge(@, r.attributes)])

RECURSIVE renderLocalIndexes(_, _, _)
\* for _, fn := range options.localIndexes { ... }
renderLocalIndexes(fns, billingMode, input) ==
  IF fns = <<>> THEN input
  ELSE LET r == LocalIndexFn(Head(fns), billingMode)
       IN renderLocalIndexes(
            Tail(fns), billingMode,
            [input EXCEPT
               !.LocalSecondaryIndexes = Append(@, r.index),
               !.AttributeDefinitions = merge(@, r.attributes)])

makeCreateTableInput(tableName, opts) ==
  LET options == makeTableOptions(opts)
      input0 ==
        [AttributeDefinitions |-> makeAttributeDefinitions(options),
         BillingMode |-> options.billingMode,
         KeySchema |-> makeKeySchemaElements(options),
         ProvisionedThroughput |-> makeProvisionedThroughput(options),
         TableName |-> tableName,
         StreamSpecification |->
           IF options.streamViewType # ""
             THEN Some([StreamEnabled |-> TRUE,
                        StreamViewType |-> options.streamViewType])
             ELSE Nil,
         GlobalSecondaryIndexes |-> <<>>,
         LocalSecondaryIndexes |-> <<>>]
      input1 == renderGlobalIndexes(options.globalIndexes, options.billingMode, input0)
  IN renderLocalIndexes(options.localIndexes, options.billingMode, input1)

(***************************************************************************)
(* The table handle and its two lifecycle calls.                           *)
(***************************************************************************)
\* New(api, tableName)
New(tableName) == [tableName |-> tableName]

\* Variant of CreateTableIfNotExistsReturn: the error code is not compared.
CreateTableIfNotExistsAnyAwsErr(err) ==
  IF err # Nil
    THEN IF err[1].awserr THEN Nil ELSE err
    ELSE Nil

\* Variant of CreateTableIfNotExistsReturn: the code compared is the delete
\* call's.
CreateTableIfNotExistsNotFound(err) ==
  IF err # Nil
    THEN IF err[1].awserr /\ err[1].code = ErrCodeResourceNotFoundException
           THEN Nil
           ELSE err
    ELSE Nil

\* What CreateTableIfNotExists returns when CreateTableWithContext
\* returned err.
CreateTableIfNotExistsReturn(err) ==
  IF err # Nil
    THEN IF err[1].awserr /\ err[1].code = ErrCodeResourceInUseException
           THEN Nil
           ELSE err
    ELSE Nil

\* Variant of DeleteTableIfExistsReturn: the code compared is the create
\* call's.
DeleteTableIfExistsInUse(err) ==
  IF err # Nil
    THEN IF err[1].awserr /\ err[1].code = ErrCodeResourceInUseException
           THEN Nil
           ELSE err
    ELSE Nil

\* What DeleteTableIfExists returns when DeleteTableWithContext returned err.
DeleteTableIfExistsReturn(err) ==
  IF err # Nil
    THEN IF err[1].awserr /\ err[1].code = ErrCodeResourceNotFoundException
           THEN Nil
           ELSE err
    ELSE Nil

\* dynamodb.DeleteTableInput{TableName: aws.String(t.tableName)}
DeleteTableInput(handle) == [TableName |-> handle.tableName]

(***************************************************************************)
(* The state.  The handle has no lock and may be shared: each goroutine    *)
(* that calls it has a call frame of its own (pc, op, hashKey, request,    *)
(* apiErr, ret).                                                           *)
(***************************************************************************)
VARIABLES
  t,        \* the table handle: [tableName]
  opts,     \* the option list the caller has assembled
  call,     \* "make" once makeCreateTableInput was called directly, else "none"
  input,    \* what that direct call of makeCreateTableInput returned, or Nil
  pc,       \* per goroutine: "idle", "blocked" (inside the collaborator's
            \* call, the request not served yet) or "served" (inside the
            \* collaborator's call, its result decided)
  op,       \* per goroutine: its last lifecycle call, "none", "create" or "delete"
  hashKey,  \* per goroutine: the hash key arguments of its create call, or Nil
  request,  \* per goroutine: the request its call built and sent, or Nil
  apiErr,   \* per goroutine: what the collaborator's call returns to its call
  ret,      \* per goroutine: what its call returned to the caller
  alone,    \* per goroutine (history): its last call overlapped no other
            \* call, and no call was started since
  exists    \* the collaborator's side: whether the bound table exists

vars == <<t, opts, call, input, pc, op, hashKey, request, apiErr, ret, alone, exists>>

\* The goroutines that share the handle.
Procs == {1, 2}

OptWeight(opt) ==
  IF opt.fn \in {"WithGlobalSecondaryIndex", "WithLocalSecondaryIndex"}
    THEN 1 + Len(opt.opts)
    ELSE 1

RECURSIVE Weight(_)
Weight(os) == IF os = <<>> THEN 0 ELSE OptWeight(Head(os)) + Weight(Tail(os))

\* The options an index declaration accepts: the constructors that return an
\* IndexOption (WithAttr) or a TableIndexOption (WithHashKey, WithReadCapacity,
\* WithWriteCapacity).  WithRangeKey, WithBillingMode and
\* WithStreamSpecification return a TableOption, and WithAttr is no
\* TableOption: an index has no range key and a table takes no WithAttr.
IndexKeyOptions ==
  {WithAttr(n, ty) : n \in AttributeNames, ty \in ScalarAttributeTypes}
    \cup {WithHashKey(n, ty) : n \in AttributeNames, ty \in ScalarAttributeTypes}

IndexCapOptions ==
  {WithReadCapacity(c) : c \in CapacityValues}
    \cup {WithWriteCapacity(c) : c \in CapacityValues}

IndexOptions == IndexKeyOptions \cup IndexCapOptions

\* The lists of at most n options drawn from S.
Lists(S, n) == UNION {[1..k -> S] : k \in 0..n}

Init ==
  /\ t \in {New(n) : n \in TableNames}
  /\ opts = <<>>
  /\ call = "none"
  /\ input = Nil
  /\ pc = [p \in Procs |-> "idle"]
  /\ op = [p \in Procs |-> "none"]
  /\ hashKey = [p \in Procs |-> Nil]
  /\ request = [p \in Procs |-> Nil]
  /\ apiErr = [p \in Procs |-> Nil]
  /\ ret = [p \in Procs |-> Nil]
  /\ alone = [p \in Procs |-> FALSE]
  /\ exists = FALSE

\* The caller adds one option to the argument list of the calls to come, a
\* list of size at most max.
Supply(opt, max) ==
  /\ call = "none"
  /\ \A p \in Procs : op[p] = "none"
  /\ Weight(opts) + OptWeight(opt) <= max
  /\ opts' = Append(opts, opt)
  /\ UNCHANGED <<t, call, input, pc, op, hashKey, request, apiErr, ret, alone, exists>>

\* makeCreateTableInput(tableName, opts...), called directly: a pure function
\* that never blocks.
MakeCreateTableInput ==
  /\ input' = Some(makeCreateTableInput(t.tableName, opts))
  /\ call' = "make"
  /\ UNCHANGED <<t, opts, pc, op, hashKey, request, apiErr, ret, alone, exists>>

\* The history of goroutine p starting a call: its call is alone when no
\* other goroutine is inside a call, and no other goroutine's call is any more.
StartAlone(p) ==
  [q \in Procs |-> IF q = p THEN \A r \in Procs \ {p} : pc[r] = "idle" ELSE FALSE]

\* Goroutine p calls t.CreateTableIfNotExists(ctx, hashKeyName, hashKeyType,
\* opts...): it builds the request and enters t.api.CreateTableWithContext,
\* where it waits.
CreateTableIfNotExists(p, hashKeyName, hashKeyType) ==
  /\ pc[p] = "idle"
  /\ LET mergedOpts == <<WithHashKey(hashKeyName, hashKeyType)>> \o opts
     IN request' = [request EXCEPT
                      ![p] = Some(makeCreateTableInput(t.tableName, mergedOpts))]
  /\ hashKey' = [hashKey EXCEPT
                   ![p] = Some([attributeName |-> hashKeyName,
                                attributeType |-> hashKeyType])]
  /\ op' = [op EXCEPT ![p] = "create"]
  /\ pc' = [pc EXCEPT ![p] = "blocked"]
  /\ apiErr' = [apiErr EXCEPT ![p] = Nil]
  /\ ret' = [ret EXCEPT ![p] = Nil]
  /\ alone' = StartAlone(p)
  /\ UNCHANGED <<t, opts, call, input, exists>>

\* Goroutine p calls t.DeleteTableIfExists(ctx): it builds the request and
\* enters t.api.DeleteTableWithContext, where it waits.
DeleteTableIfExists(p) ==
  /\ pc[p] = "idle"
  /\ request' = [request EXCEPT ![p] = Some(DeleteTableInput(t))]
  /\ hashKey' = [hashKey EXCEPT ![p] = Nil]
  /\ op' = [op EXCEPT ![p] = "delete"]
  /\ pc' = [pc EXCEPT ![p] = "blocked"]
  /\ apiErr' = [apiErr EXCEPT ![p] = Nil]
  /\ ret' = [ret EXCEPT ![p] = Nil]
  /\ alone' = StartAlone(p)
  /\ UNCHANGED <<t, opts, call, input, exists>>

\* The collaborator's call of goroutine p gets its result err.
Served(p, err) ==
  /\ pc[p] = "blocked"
  /\ pc' = [pc EXCEPT ![p] = "served"]
  /\ apiErr' = [apiErr EXCEPT ![p] = err]
  /\ UNCHANGED <<t, opts, call, input, op, hashKey, request, ret, alone>>

\* Mock.CreateTableWithContext: answers the error the mock holds, whatever
\* the request, and keeps no state.
CreateTableWithContext(p, err) ==
  /\ op[p] = "create"
  /\ Served(p, err)
  /\ UNCHANGED exists

\* Mock.DeleteTableWithContext: the same.
DeleteTableWithContext(p, err) ==
  /\ op[p] = "delete"
  /\ Served(p, err)
  /\ UNCHANGED exists

\* The caller cancels the ctx of goroutine p's call while the call waits in
\* the collaborator: the collaborator's call ends with the cancellation
\* error, whether the request was served already or not.
Cancel(p) ==
  /\ pc[p] \in {"blocked", "served"}
  /\ apiErr[p] # Some(CanceledErr)
  /\ pc' = [pc EXCEPT ![p] = "served"]
  /\ apiErr' = [apiErr EXCEPT ![p] = Some(CanceledErr)]
  /\ UNCHANGED <<t, opts, call, input, op, hashKey, request, ret, alone, exists>>

\* The collaborator's call of goroutine p returns, and the lifecycle call maps
\* its error and returns.
Return(p) ==
  /\ pc[p] = "served"
  /\ pc' = [pc EXCEPT ![p] = "idle"]
  /\ ret' = [ret EXCEPT
               ![p] = IF op[p] = "create"
                        THEN CreateTableIfNotExistsReturn(apiErr[p])
                        ELSE DeleteTableIfExistsReturn(apiErr[p])]
  /\ UNCHANGED <<t, opts, call, input, op, hashKey, request, apiErr, alone, exists>>

(***************************************************************************)
(* The caller's options.                                                   *)
(***************************************************************************)
SupplyKey(max) ==
  \/ \E n \in AttributeNames, ty \in ScalarAttributeTypes :
       Supply(WithHashKey(n, ty), max)
  \/ \E n \in AttributeNames, ty \in ScalarAttributeTypes :
       Supply(WithRangeKey(n, ty), max)

SupplyCap(max) ==
  \/ \E m \in BillingModes : Supply(WithBillingMode(m), max)
  \/ \E c \in CapacityValues : Supply(WithReadCapacity(c), max)
  \/ \E c \in CapacityValues : Supply(WithWriteCapacity(c), max)

SupplyStream(max) ==
  \E v \in StreamViewTypes : Supply(WithStreamSpecification(v), max)

SupplyIndex(N, S, max) ==
  \/ \E i \in N, p \in ProjectionTypes,
        io \in Lists(S, max - 1 - Weight(opts)) :
          Supply(WithGlobalSecondaryIndex(i, p, io), max)
  \/ \E i \in N, p \in ProjectionTypes,
        io \in Lists(S, max - 1 - Weight(opts)) :
          Supply(WithLocalSecondaryIndex(i, p, io), max)

(***************************************************************************)
(* Spec: the lifecycle calls of the goroutines that share one handle,      *)
(* against a collaborator that answers any error (the Mock of the tests    *)
(* answers whatever error it was given).                                   *)
(***************************************************************************)
Next ==
  \/ SupplyStream(MaxCallOpts)
  \/ \E p \in Procs, n \in AttributeNames, ty \in ScalarAttributeTypes :
       CreateTableIfNotExists(p, n, ty)
  \/ \E p \in Procs : DeleteTableIfExists(p)
  \/ \E p \in Procs, e \in ApiErrors : CreateTableWithContext(p, e)
  \/ \E p \in Procs, e \in ApiErrors : DeleteTableWithContext(p, e)
  \/ \E p \in Procs : Cancel(p)
  \/ \E p \in Procs : Return(p)

Spec == Init /\ [][Next]_vars

(***************************************************************************)
(* SpecOptions: every option, folded by makeCreateTableInput called        *)
(* directly and by the create call of one goroutine, whose request is      *)
(* accepted.  The request a call builds depends on its own arguments only. *)
(***************************************************************************)
NextOptions ==
  \/ SupplyKey(MaxOpts)
  \/ SupplyCap(MaxOpts)
  \/ SupplyStream(MaxOpts)
  \/ SupplyIndex(IndexNamesOrdered, IndexOptions, MaxOpts)
  \/ MakeCreateTableInput
  \/ \E n \in AttributeNames, ty \in ScalarAttributeTypes :
       CreateTableIfNotExists(1, n, ty)
  \/ CreateTableWithContext(1, Nil)
  \/ Return(1)

SpecOptions == Init /\ [][NextOptions]_vars

(***************************************************************************)
(* SpecAttributes: the options that declare attributes (table keys, index  *)
(* declarations with their keys and projected attributes), rendered by     *)
(* makeCreateTableInput.                                                   *)
(***************************************************************************)
NextAttributes ==
  \/ SupplyKey(MaxAttrOpts)
  \/ SupplyIndex(IndexNames, IndexKeyOptions, MaxAttrOpts)
  \/ MakeCreateTableInput

SpecAttributes == Init /\ [][NextAttributes]_vars

(***************************************************************************)
(* SpecThroughput: the billing and capacity options and index declarations *)
(* with capacity options of their own, rendered by makeCreateTableInput.   *)
(***************************************************************************)
NextThroughput ==
  \/ SupplyCap(MaxCapOpts)
  \/ SupplyIndex(IndexNames, IndexCapOptions, MaxCapOpts)
  \/ MakeCreateTableInput

SpecThroughput == Init /\ [][NextThroughput]_vars

(***************************************************************************)
(* SpecTracking: the goroutines' lifecycle calls against a collaborator    *)
(* that tracks whether the bound table exists and never fails otherwise.   *)
(* The calls are made as the tests make them, without options.             *)
(***************************************************************************)
\* Create succeeds when the table is absent, reports "already exists" else.
TrackingCreateTable(present) ==
  IF present THEN Some(AwsErr(ErrCodeResourceInUseException)) ELSE Nil

\* Delete succeeds when the table is present, reports "not found" else.
TrackingDeleteTable(present) ==
  IF present THEN Nil ELSE Some(AwsErr(ErrCodeResourceNotFoundException))

\* The collaborator serves the create request of goroutine p: after it the
\* table exists.
TrackingCreateTableWithContext(p) ==
  /\ op[p] = "create"
  /\ Served(p, TrackingCreateTable(exists))
  /\ exists' = TRUE

\* The collaborator serves the delete request of goroutine p: after it the
\* table does not exist.
TrackingDeleteTableWithContext(p) ==
  /\ op[p] = "delete"
  /\ Served(p, TrackingDeleteTable(exists))
  /\ exists' = FALSE

NextTracking ==
  \/ \E p \in Procs, n \in AttributeNames, ty \in ScalarAttributeTypes :
       CreateTableIfNotExists(p, n, ty)
  \/ \E p \in Procs : DeleteTableIfExists(p)
  \/ \E p \in Procs : TrackingCreateTableWithContext(p)
  \/ \E p \in Procs : TrackingDeleteTableWithContext(p)
  \/ \E p \in Procs : Cancel(p)
  \/ \E p \in Procs : Return(p)

\* The handle may be bound to a table that exists already.
InitTracking ==
  /\ t \in {New(n) : n \in TableNames}
  /\ opts = <<>>
  /\ call = "none"
  /\ input = Nil
  /\ pc = [p \in Procs |-> "idle"]
  /\ op = [p \in Procs |-> "none"]
  /\ hashKey = [p \in Procs |-> Nil]
  /\ request = [p \in Procs |-> Nil]
  /\ apiErr = [p \in Procs |-> Nil]
  /\ ret = [p \in Procs |-> Nil]
  /\ alone = [p \in Procs |-> FALSE]
  /\ exists \in BOOLEAN

SpecTracking == InitTracking /\ [][NextTracking]_vars

(***************************************************************************)
(* What the claims are stated with.                                        *)
(***************************************************************************)
\* makeCreateTableInput was called directly with the options assembled.
Rendered == call = "make"

\* The request it returned.
req == input[1]

\* The lifecycle call of goroutine p has returned.
Returned(p) == pc[p] = "idle" /\ op[p] # "none"

\* The place of the last option of os made by constructor fn, 0 if none.
LastIndexOf(os, fn) ==
  LET S == {i \in 1..Len(os) : os[i].fn = fn}
  IN IF S = {} THEN 0 ELSE CHOOSE i \in S : \A j \in S : j <= i

FinalBillingMode(os) ==
  LET i == LastIndexOf(os, "WithBillingMode")
  IN IF i = 0 THEN "PROVISIONED" ELSE os[i].mode

FinalReadCapacity(os) ==
  LET i == LastIndexOf(os, "WithReadCapacity")
  IN IF i = 0 THEN 3 ELSE os[i].rcap

FinalWriteCapacity(os) ==
  LET i == LastIndexOf(os, "WithWriteCapacity")
  IN IF i = 0 THEN 3 ELSE os[i].wcap

FinalThroughput(os) ==
  [ReadCapacityUnits |-> FinalReadCapacity(os),
   WriteCapacityUnits |-> FinalWriteCapacity(os)]

\* The last hash key and the last range key of os, as key declarations.
FinalKeys(os) ==
  LET h == LastIndexOf(os, "WithHashKey")
      r == LastIndexOf(os, "WithRangeKey")
  IN (IF h = 0 THEN <<>>
      ELSE <<[Name |-> os[h].attributeName, Type |-> os[h].attributeType,
              KeyType |-> "HASH"]>>)
     \o
     (IF r = 0 THEN <<>>
      ELSE <<[Name |-> os[r].attributeName, Type |-> os[r].attributeType,
              KeyType |-> "RANGE"]>>)

ExpectedKeySchema(os) ==
  LET k == FinalKeys(os)
  IN [i \in 1..Len(k) |-> [AttributeName |-> k[i].Name, KeyType |-> k[i].KeyType]]

IsGlobalDecl(o) == o.fn = "WithGlobalSecondaryIndex"
IsLocalDecl(o) == o.fn = "WithLocalSecondaryIndex"
IsAttrDecl(o) == o.fn = "WithAttr"

GlobalDecls(os) == SelectSeq(os, IsGlobalDecl)
LocalDecls(os) == SelectSeq(os, IsLocalDecl)

\* The attributes an index declaration's nested options os project.
AttrDecls(os) ==
  LET a == SelectSeq(os, IsAttrDecl)
  IN [k \in 1..Len(a) |-> [Name |-> a[k].attributeName, Type |-> a[k].attributeType]]

AttrDeclNames(os) ==
  LET a == AttrDecls(os) IN [k \in 1..Len(a) |-> a[k].Name]

RECURSIVE Flatten(_)
Flatten(ss) == IF ss = <<>> THEN <<>> ELSE Head(ss) \o Flatten(Tail(ss))

DefinitionNames(defs) == {defs[i].AttributeName : i \in 1..Len(defs)}
DeclNames(decls) == {decls[i].Name : i \in 1..Len(decls)}

NoDuplicateNames(defs) ==
  \A i, j \in 1..Len(defs) : i # j => defs[i].AttributeName # defs[j].AttributeName

\* The type of the first entry of defs named n.
FirstRecorded(defs, n) ==
  LET S == {i \in 1..Len(defs) : defs[i].AttributeName = n}
  IN defs[CHOOSE i \in S : \A j \in S : i <= j].AttributeType

\* The type of the first declaration of n in decls.
FirstDeclared(decls, n) ==
  LET S == {i \in 1..Len(decls) : decls[i].Name = n}
  IN decls[CHOOSE i \in S : \A j \in S : i <= j].Type

\* The declarations that take effect, in the order the options were
\* supplied: the table's final keys at the places of the options that set
\* them, the projected attributes of an index at the place of its declaration.
SupplyOrderDecls(os) ==
  Flatten([i \in 1..Len(os) |->
    CASE os[i].fn \in {"WithHashKey", "WithRangeKey"} ->
           IF i = LastIndexOf(os, os[i].fn)
             THEN <<[Name |-> os[i].attributeName, Type |-> os[i].attributeType]>>
             ELSE <<>>
      [] os[i].fn \in {"WithGlobalSecondaryIndex", "WithLocalSecondaryIndex"} ->
           AttrDecls(os[i].opts)
      [] OTHER -> <<>>])

\* The same declarations in the order the request is rendered: the final
\* hash key, the final range key, the projected attributes of the global
\* index declarations in declaration order, then those of the local ones.
RenderOrderDecls(os) ==
  LET k == FinalKeys(os)
      g == GlobalDecls(os)
      l == LocalDecls(os)
  IN [i \in 1..Len(k) |-> [Name |-> k[i].Name, Type |-> k[i].Type]]
     \o Flatten([i \in 1..Len(g) |-> AttrDecls(g[i].opts)])
     \o Flatten([i \in 1..Len(l) |-> AttrDecls(l[i].opts)])

(***************************************************************************)
(* C1.  A CreateTableIfNotExists call that has returned, returned no error *)
(* exactly when the collaborator's create-table call succeeded or failed   *)
(* with the ResourceInUse code; every other failure was returned as it     *)
(* was.                                                                    *)
(***************************************************************************)
C1_CreateSwallowsOnlyInUse ==
  \A p \in Procs :
    (Returned(p) /\ op[p] = "create") =>
      /\ ret[p] = Nil <=>
           \/ apiErr[p] = Nil
           \/ apiErr[p][1].awserr /\ apiErr[p][1].code = "ResourceInUseException"
      /\ ret[p] # Nil => ret[p] = apiErr[p]

C1_Witness ==
  \E p \in Procs :
    /\ Returned(p)
    /\ op[p] = "create"
    /\ apiErr[p] = Some(AwsErr("ResourceNotFoundException"))
    /\ ret[p] = apiErr[p]

(***************************************************************************)
(* C2.  DeleteTableIfExists sends a delete request that names the handle's *)
(* table, and a call that has returned, returned no error exactly when the *)
(* collaborator's delete call succeeded or failed with the                 *)
(* ResourceNotFound code; every other failure was returned as it was.      *)
(***************************************************************************)
C2_DeleteSwallowsOnlyNotFound ==
  \A p \in Procs :
    op[p] = "delete" =>
      /\ request[p] = Some([TableName |-> t.tableName])
      /\ Returned(p) =>
           /\ ret[p] = Nil <=>
                \/ apiErr[p] = Nil
                \/ apiErr[p][1].awserr /\ apiErr[p][1].code = "ResourceNotFoundException"
           /\ ret[p] # Nil => ret[p] = apiErr[p]

C2_Witness ==
  \E p \in Procs :
    /\ Returned(p)
    /\ op[p] = "delete"
    /\ apiErr[p] = Some(AwsErr("ResourceInUseException"))
    /\ ret[p] = apiErr[p]

(***************************************************************************)
(* C3.  Against a collaborator that tracks the table's existence and fails *)
(* in no other way, every call of a sequence of lifecycle calls returns no *)
(* error, and after it the table exists if and only if the call was        *)
(* CreateTableIfNotExists (so a repeated call leaves the end state as it   *)
(* was).  A call of a sequence overlapped no other call (alone), and the   *)
(* collaborator's call did not fail with the cancellation error.           *)
(***************************************************************************)
C3_LifecycleConverges ==
  \A p \in Procs :
    (Returned(p) /\ alone[p] /\ apiErr[p] # Some(CanceledErr)) =>
      /\ ret[p] = Nil
      /\ exists <=> op[p] = "create"

\* A create of a table that exists, after a call of the other goroutine: the
\* collaborator said "already exists".
C3_Witness ==
  \E p \in Procs :
    /\ Returned(p)
    /\ alone[p]
    /\ op[p] = "create"
    /\ \E q \in Procs \ {p} : Returned(q) /\ op[q] = "create" /\ ret[q] = Nil
    /\ apiErr[p] = Some(AwsErr("ResourceInUseException"))
    /\ ret[p] = Nil
    /\ exists

(***************************************************************************)
(* C4.  The rendered request carries a table-level provisioned throughput  *)
(* if and only if the final billing mode is not pay-per-request, and then  *)
(* it carries the final read and write capacity (3 and 3 by default).      *)
(***************************************************************************)
C4_ThroughputIffNotPayPerRequest ==
  Rendered =>
    /\ req.ProvisionedThroughput # Nil <=>
         FinalBillingMode(opts) # "PAY_PER_REQUEST"
    /\ req.ProvisionedThroughput # Nil =>
         req.ProvisionedThroughput = Some(FinalThroughput(opts))

\* Pay-per-request with a capacity option supplied: no throughput.
C4_Witness ==
  /\ call = "make"
  /\ FinalBillingMode(opts) = "PAY_PER_REQUEST"
  /\ LastIndexOf(opts, "WithReadCapacity") # 0
  /\ req.ProvisionedThroughput = Nil

(***************************************************************************)
(* C5.  The attribute definitions of the rendered request hold no two      *)
(* entries with the same attribute name.                                   *)
(***************************************************************************)
C5_NoDuplicateAttributeNames ==
  Rendered => NoDuplicateNames(req.AttributeDefinitions)

(***************************************************************************)
(* C6, as claimed.  A name declared with several types is recorded with    *)
(* the type of its first declaration in the order the options were         *)
(* supplied.  (Stated for requests without duplicate names, where "the     *)
(* type recorded" is one type.)                                            *)
(***************************************************************************)
C6_FirstSuppliedTypeWins ==
  (Rendered /\ NoDuplicateNames(req.AttributeDefinitions)) =>
    LET d == SupplyOrderDecls(opts)
    IN \A n \in DefinitionNames(req.AttributeDefinitions) \cap DeclNames(d) :
         FirstRecorded(req.AttributeDefinitions, n) = FirstDeclared(d, n)

(***************************************************************************)
(* C6, amended.  The names recorded are the names declared, and the first  *)
(* entry recorded for a name has the type of the name's first declaration  *)
(* in render order: the table's final hash key, its final range key, the   *)
(* projected attributes of the global index declarations, then those of    *)
(* the local index declarations.                                           *)
(***************************************************************************)
C6_FirstRenderedTypeWins ==
  Rendered =>
    LET d == RenderOrderDecls(opts)
    IN /\ DefinitionNames(req.AttributeDefinitions) = DeclNames(d)
       /\ \A n \in DeclNames(d) :
            FirstRecorded(req.AttributeDefinitions, n) = FirstDeclared(d, n)

\* A local index supplied first declares id:S, a global index supplied after
\* it declares id:N: the request records id:N.
C6_Witness ==
  /\ call = "make"
  /\ opts = <<WithLocalSecondaryIndex("index", "INCLUDE", <<WithAttr("id", "S")>>),
              WithGlobalSecondaryIndex("index", "INCLUDE", <<WithAttr("id", "N")>>)>>
  /\ req.AttributeDefinitions = <<[AttributeName |-> "id", AttributeType |-> "N"]>>

(***************************************************************************)
(* C7.  No rendered local index carries a provisioned throughput; every    *)
(* rendered global index carries one if and only if the table's final      *)
(* billing mode is not pay-per-request, wherever the billing-mode option   *)
(* stands among the index declarations.                                    *)
(***************************************************************************)
C7_IndexThroughputFollowsTableBilling ==
  Rendered =>
    /\ Len(req.GlobalSecondaryIndexes) = Len(GlobalDecls(opts))
    /\ Len(req.LocalSecondaryIndexes) = Len(LocalDecls(opts))
    /\ \A i \in 1..Len(req.LocalSecondaryIndexes) :
         "ProvisionedThroughput" \notin DOMAIN req.LocalSecondaryIndexes[i]
    /\ \A i \in 1..Len(req.GlobalSecondaryIndexes) :
         req.GlobalSecondaryIndexes[i].ProvisionedThroughput # Nil <=>
           FinalBillingMode(opts) # "PAY_PER_REQUEST"

\* A global and a local index declared before the option that makes the
\* table pay-per-request: the global index has no throughput.
C7_Witness ==
  /\ call = "make"
  /\ \E i, j \in 1..Len(opts) :
       /\ i < j
       /\ opts[i].fn = "WithGlobalSecondaryIndex"
       /\ opts[j] = WithBillingMode("PAY_PER_REQUEST")
  /\ FinalBillingMode(opts) = "PAY_PER_REQUEST"
  /\ Len(req.LocalSecondaryIndexes) = 1
  /\ Len(req.GlobalSecondaryIndexes) = 1
  /\ req.GlobalSecondaryIndexes[1].ProvisionedThroughput = Nil

(***************************************************************************)
(* C8.  Every attribute the request refers to has an attribute definition: *)
(* the table's key attributes, and each attribute named in an index's key  *)
(* schema or in its projected attribute list.                              *)
(***************************************************************************)
C8_IndexAttributesDefined ==
  Rendered =>
    LET names == DefinitionNames(req.AttributeDefinitions)
        Covered(ix) ==
          /\ \A k \in 1..Len(ix.KeySchema) : ix.KeySchema[k].AttributeName \in names
          /\ \A k \in 1..Len(ix.Projection.NonKeyAttributes) :
               ix.Projection.NonKeyAttributes[k] \in names
    IN /\ \A k \in 1..Len(req.KeySchema) : req.KeySchema[k].AttributeName \in names
       /\ \A i \in 1..Len(req.GlobalSecondaryIndexes) :
            Covered(req.GlobalSecondaryIndexes[i])
       /\ \A i \in 1..Len(req.LocalSecondaryIndexes) :
            Covered(req.LocalSecondaryIndexes[i])

(***************************************************************************)
(* C9.  Options are folded in the order supplied: every scalar field of    *)
(* the request reflects the last option that set it, or its default; the   *)
(* global and the local index lists hold one entry per declaration, in     *)
(* declaration order; the hash key given to CreateTableIfNotExists is      *)
(* applied first, so that a hash-key option among the options replaces it. *)
(***************************************************************************)
C9_LastOptionWins ==
  LET h == LastIndexOf(opts, "WithHashKey")
      r == LastIndexOf(opts, "WithRangeKey")
      s == LastIndexOf(opts, "WithStreamSpecification")
      g == GlobalDecls(opts)
      l == LocalDecls(opts)
      range == IF r # 0
                 THEN <<[Name |-> opts[r].attributeName, Type |-> opts[r].attributeType]>>
                 ELSE <<>>
      Shape(ix) == <<ix.IndexName, ix.Projection.ProjectionType,
                     ix.Projection.NonKeyAttributes, ix.KeySchema>>
      Declared(d) == <<d.indexName, d.projectionType, AttrDeclNames(d.opts),
                       ExpectedKeySchema(d.opts)>>
      \* The request rq reflects opts, folded after the hash key given to the
      \* call (given: none or one).
      Reflects(rq, given) ==
        LET hash == IF h # 0
                      THEN <<[Name |-> opts[h].attributeName,
                              Type |-> opts[h].attributeType]>>
                      ELSE [i \in 1..Len(given) |->
                              [Name |-> given[i].attributeName,
                               Type |-> given[i].attributeType]]
            schema == [i \in 1..Len(hash) |->
                         [AttributeName |-> hash[i].Name, KeyType |-> "HASH"]]
                        \o [i \in 1..Len(range) |->
                              [AttributeName |-> range[i].Name, KeyType |-> "RANGE"]]
            keydefs == [i \in 1..Len(hash) |->
                          [AttributeName |-> hash[i].Name, AttributeType |-> hash[i].Type]]
                         \o [i \in 1..Len(range) |->
                               [AttributeName |-> range[i].Name,
                                AttributeType |-> range[i].Type]]
        IN /\ rq.KeySchema = schema
           /\ Len(rq.AttributeDefinitions) >= Len(keydefs)
           /\ SubSeq(rq.AttributeDefinitions, 1, Len(keydefs)) = keydefs
           /\ rq.BillingMode = FinalBillingMode(opts)
           /\ rq.ProvisionedThroughput =
                IF FinalBillingMode(opts) = "PAY_PER_REQUEST"
                  THEN Nil
                  ELSE Some(FinalThroughput(opts))
           /\ rq.StreamSpecification =
                IF s = 0 \/ opts[s].streamViewType = ""
                  THEN Nil
                  ELSE Some([StreamEnabled |-> TRUE,
                             StreamViewType |-> opts[s].streamViewType])
           /\ [i \in 1..Len(rq.GlobalSecondaryIndexes) |->
                 Shape(rq.GlobalSecondaryIndexes[i])]
                = [i \in 1..Len(g) |-> Declared(g[i])]
           /\ [i \in 1..Len(rq.LocalSecondaryIndexes) |->
                 Shape(rq.LocalSecondaryIndexes[i])]
                = [i \in 1..Len(l) |-> Declared(l[i])]
  IN /\ Rendered => Reflects(req, <<>>)
     /\ \A p \in Procs :
          op[p] = "create" => Reflects(request[p][1], hashKey[p])

\* CreateTableIfNotExists given one hash key and an option that sets another:
\* the request's hash key is the option's.
C9_Witness ==
  \E p \in Procs :
    /\ Returned(p)
    /\ op[p] = "create"
    /\ LastIndexOf(opts, "WithHashKey") # 0
    /\ opts[LastIndexOf(opts, "WithHashKey")].attributeName # hashKey[p][1].attributeName
    /\ request[p][1].KeySchema[1].AttributeName
         = opts[LastIndexOf(opts, "WithHashKey")].attributeName

(***************************************************************************)
(* C10.  Under a billing mode other than pay-per-request, the throughput   *)
(* of each rendered global index comes from that index's own nested        *)
(* options alone (3 and 3 by default), and the table's throughput from the *)
(* table-level options alone.                                              *)
(***************************************************************************)
C10_IndexThroughputIsItsOwn ==
  (Rendered /\ FinalBillingMode(opts) # "PAY_PER_REQUEST") =>
    LET g == GlobalDecls(opts)
    IN /\ Len(req.GlobalSecondaryIndexes) = Len(g)
       /\ \A k \in 1..Len(g) :
            req.GlobalSecondaryIndexes[k].ProvisionedThroughput
              = Some(FinalThroughput(g[k].opts))
       /\ req.ProvisionedThroughput = Some(FinalThroughput(opts))

\* The table reads 4, its first global index reads 5, its second global
\* index sets nothing and reads 3.
C10_Witness ==
  /\ call = "make"
  /\ LET g == GlobalDecls(opts)
     IN /\ Len(g) = 2
        /\ g[1].opts = <<WithReadCapacity(5)>>
        /\ g[2].opts = <<>>
  /\ FinalReadCapacity(opts) = 4
  /\ req.ProvisionedThroughput = Some([ReadCapacityUnits |-> 4, WriteCapacityUnits |-> 3])
  /\ req.GlobalSecondaryIndexes[1].ProvisionedThroughput
       = Some([ReadCapacityUnits |-> 5, WriteCapacityUnits |-> 3])
  /\ req.GlobalSecondaryIndexes[2].ProvisionedThroughput
       = Some([ReadCapacityUnits |-> 3, WriteCapacityUnits |-> 3])

====
